---- MODULE Spec2Model ----
(***************************************************************************)
(* mmterm-rs: the braille Canvas (src/src/canvas.rs) and the viewer's      *)
(* control loop (src/src/main.rs).                                         *)
(*                                                                         *)
(* f32 values are fixed-point integers, FP units to 1.0.  i32 values are   *)
(* integers; all coordinates of the model lie far inside the range where   *)
(* i32 arithmetic does not overflow and i32 -> f32 is exact (|v| <= 2^24), *)
(* the domain spec.md 4.1 gives the rasterizer (pre-clipped coordinates).  *)
(***************************************************************************)
EXTENDS Integers, Sequences, FiniteSets, TLC

VARIABLES
    canvas,     \* the Canvas: [grid, min_x, max_x, min_y, max_y]
    pre,        \* the Canvas as it was before the last operation
    last,       \* the last Canvas operation and its arguments
    ops,        \* the names of the operations before the last one (newest last)
    calls,      \* the integer points passed to set since the last clear
    path,       \* the f32 arguments line() gave set in the last line call
    output,     \* the value frame() returned, when the last operation is frame
    \* main(): its locals, and what it has done to the terminal
    pc,             \* where main() is
    args,           \* the parsed command line: [input, size, model]
    models,         \* the Vec<Model> read_pdb returned
    curr_model_idx,
    zoom,
    clip,           \* [x_min, x_max, y_min, y_max]: clip_x_min .. clip_y_max
    trans,          \* <<trans_x, trans_y>>
    rot,            \* <<rot_x, rot_y>>
    auto_spin,
    cycle_models,
    do_update,
    term,           \* the terminal: [raw, alt, hidden]
    screen,         \* the canvas text of the frame last written to stdout
    result,         \* what main() returned: "none" while it runs, "ok", "err"
    iter,           \* iterations of the main loop begun
    tp,             \* transformed_points of the last render pass
    drawn,          \* per bond of the last render pass, the set calls made for it
    it              \* the loop iteration under way: what it read and did so far

hvars == <<pre, last, ops, calls, path, output>>

mvars == <<pc, args, models, curr_model_idx, zoom, clip, trans, rot, auto_spin,
           cycle_models, do_update, term, screen, result, iter, tp, drawn, it>>

vars == <<canvas, hvars, mvars>>

(***************************************************************************)
(* Numbers                                                                 *)
(***************************************************************************)
FP == 1000

I32Max == 2147483647

I32Min == (-2147483647) - 1

Abs(n) == IF n < 0 THEN -n ELSE n

\* f32::round: to the nearest integer, halves away from zero.
RoundTowardZero(v) == IF v >= 0 THEN v \div FP ELSE -((-v) \div FP)

Round(v) == IF v >= 0 THEN (v + FP \div 2) \div FP ELSE -(((-v) + FP \div 2) \div FP)

\* `as i32` on an f32 that holds an integer: saturating.
AsI32(n) == IF n > I32Max THEN I32Max ELSE IF n < I32Min THEN I32Min ELSE n

\* `x as f32` on an i32 (exact for |x| <= 2^24).
AsF32(i) == i * FP

\* Rust's integer / and %: the quotient truncates toward zero, the remainder
\* has the sign of the dividend.
TruncDiv(a, b) == IF a >= 0 THEN a \div b ELSE -((-a) \div b)

TruncRem(a, b) == a - b * TruncDiv(a, b)

RECURSIVE BitOr(_, _)
BitOr(a, b) ==
    IF a = 0 THEN b
    ELSE IF b = 0 THEN a
    ELSE (IF a % 2 = 1 \/ b % 2 = 1 THEN 1 ELSE 0) + 2 * BitOr(a \div 2, b \div 2)

(***************************************************************************)
(* Bounds of the model                                                     *)
(***************************************************************************)
\* set calls a Canvas may hold before the next set or line is refused
MaxCalls == 2

\* the wide arguments range over -MaxX..MaxX by -MaxY..MaxY
MaxX == 2

MaxY == 4

\* replays of the set calls in every order are checked up to this many calls
MaxPerm == 4

\* iterations of the main loop a run makes
MaxIter == 2

\* iterations of line's loop the model follows
LineFuel == 32

\* residue numbers of the generated files range over 1..MaxRes
MaxRes == 4

\* code points of frame()'s output
BrailleBase == 10240

Space == 32

CR == 13

LF == 10

(***************************************************************************)
(* Canvas                                                                  *)
(***************************************************************************)
EmptyGrid == [k \in {} |-> 0]

CanvasNew ==
    [grid |-> EmptyGrid, min_x |-> I32Max, max_x |-> I32Min,
     min_y |-> I32Max, max_y |-> I32Min]

\* clear() that empties the grid and keeps the rectangle
clear_keeps_bounds(c) == [c EXCEPT !.grid = EmptyGrid]

\* clear() that clears a copy and leaves the Canvas as it was
clear_a_copy(c) == c

\* clear() that resets the rectangle and keeps the cells
clear_keeps_grid(c) ==
    [grid |-> c.grid, min_x |-> I32Max, max_x |-> I32Min, min_y |-> I32Max, max_y |-> I32Min]

clear(c) ==
    [grid |-> EmptyGrid, min_x |-> I32Max, max_x |-> I32Min,
     min_y |-> I32Max, max_y |-> I32Min]

PixelMask(sub_x, sub_y) ==
    CASE sub_x = 0 /\ sub_y = 0 -> 1
      [] sub_x = 0 /\ sub_y = 1 -> 2
      [] sub_x = 0 /\ sub_y = 2 -> 4
      [] sub_x = 0 /\ sub_y = 3 -> 64
      [] sub_x = 1 /\ sub_y = 0 -> 8
      [] sub_x = 1 /\ sub_y = 1 -> 16
      [] sub_x = 1 /\ sub_y = 2 -> 32
      [] sub_x = 1 /\ sub_y = 3 -> 128
      [] OTHER -> 0

\* get_pixel_map with Rust's truncating quotient left as it is
get_pixel_map_trunc(x, y) ==
    LET sub_x0 == TruncRem(x, 2)
        sub_y0 == TruncRem(y, 4)
        sub_x == IF sub_x0 < 0 THEN sub_x0 + 2 ELSE sub_x0
        sub_y == IF sub_y0 < 0 THEN sub_y0 + 4 ELSE sub_y0
    IN  <<<<TruncDiv(x, 2), TruncDiv(y, 4)>>, PixelMask(sub_x, sub_y)>>

get_pixel_map(x, y) ==
    LET char_x0 == TruncDiv(x, 2)
        char_y0 == TruncDiv(y, 4)
        sub_x0 == TruncRem(x, 2)
        sub_y0 == TruncRem(y, 4)
        sub_x == IF sub_x0 < 0 THEN sub_x0 + 2 ELSE sub_x0
        sub_y == IF sub_y0 < 0 THEN sub_y0 + 4 ELSE sub_y0
        char_x == IF x < 0 /\ TruncRem(x, 2) # 0 THEN char_x0 - 1 ELSE char_x0
        char_y == IF y < 0 /\ TruncRem(y, 4) # 0 THEN char_y0 - 1 ELSE char_y0
    IN  <<<<char_x, char_y>>, PixelMask(sub_x, sub_y)>>

\* set that stores the bit in place of the mask
set_overwrite(c, x, y) ==
    LET pm == get_pixel_map(AsI32(Round(x)), AsI32(Round(y)))
        key == pm[1]
    IN  [grid |-> [k \in (DOMAIN c.grid) \cup {key} |->
                      IF k = key THEN pm[2] ELSE c.grid[k]],
         min_x |-> IF key[1] < c.min_x THEN key[1] ELSE c.min_x,
         max_x |-> IF key[1] > c.max_x THEN key[1] ELSE c.max_x,
         min_y |-> IF key[2] < c.min_y THEN key[2] ELSE c.min_y,
         max_y |-> IF key[2] > c.max_y THEN key[2] ELSE c.max_y]

set(c, x, y) ==
    LET ix == AsI32(Round(x))
        iy == AsI32(Round(y))
        pm == get_pixel_map(ix, iy)
        key == pm[1]
        mask == pm[2]
        old == IF key \in DOMAIN c.grid THEN c.grid[key] ELSE 0
    IN  [grid |-> [k \in (DOMAIN c.grid) \cup {key} |->
                      IF k = key THEN BitOr(old, mask) ELSE c.grid[k]],
         min_x |-> IF key[1] < c.min_x THEN key[1] ELSE c.min_x,
         max_x |-> IF key[1] > c.max_x THEN key[1] ELSE c.max_x,
         min_y |-> IF key[2] < c.min_y THEN key[2] ELSE c.min_y,
         max_y |-> IF key[2] > c.max_y THEN key[2] ELSE c.max_y]

\* the loop with the break tested before the set call
RECURSIVE line_loop_break_first(_, _, _, _, _)
line_loop_break_first(k, x, y, err, fuel) ==
    IF fuel = 0 THEN [pts |-> <<>>, done |-> FALSE]
    ELSE IF x = k.x2 /\ y = k.y2 THEN [pts |-> <<>>, done |-> TRUE]
    ELSE LET e2 == 2 * err
             stepx == e2 >= k.dy
             err1 == IF stepx THEN err + k.dy ELSE err
             nx == IF stepx THEN x + k.sx ELSE x
             stepy == e2 <= k.dx
             err2 == IF stepy THEN err1 + k.dx ELSE err1
             ny == IF stepy THEN y + k.sy ELSE y
             rest == line_loop_break_first(k, nx, ny, err2, fuel - 1)
         IN  [pts |-> << <<x, y>> >> \o rest.pts, done |-> rest.done]

\* The loop of line(): the points it passes to set, in order.  `fuel` bounds
\* the iterations the model follows; done = FALSE means the loop had not
\* reached its break within them.
RECURSIVE line_loop(_, _, _, _, _)
line_loop(k, x, y, err, fuel) ==
    IF fuel = 0 THEN [pts |-> <<>>, done |-> FALSE]
    ELSE IF x = k.x2 /\ y = k.y2 THEN [pts |-> << <<x, y>> >>, done |-> TRUE]
    ELSE LET e2 == 2 * err
             stepx == e2 >= k.dy
             err1 == IF stepx THEN err + k.dy ELSE err
             nx == IF stepx THEN x + k.sx ELSE x
             stepy == e2 <= k.dx
             err2 == IF stepy THEN err1 + k.dx ELSE err1
             ny == IF stepy THEN y + k.sy ELSE y
             rest == line_loop(k, nx, ny, err2, fuel - 1)
         IN  [pts |-> << <<x, y>> >> \o rest.pts, done |-> rest.done]

\* line() with dx taken without abs()
line_points_noabs(fx1, fy1, fx2, fy2) ==
    LET x1 == AsI32(Round(fx1))
        y1 == AsI32(Round(fy1))
        x2 == AsI32(Round(fx2))
        y2 == AsI32(Round(fy2))
        dx == x2 - x1
        dy == -Abs(y2 - y1)
        sx == IF x1 < x2 THEN 1 ELSE -1
        sy == IF y1 < y2 THEN 1 ELSE -1
    IN  line_loop([x2 |-> x2, y2 |-> y2, dx |-> dx, dy |-> dy, sx |-> sx, sy |-> sy],
                  x1, y1, dx + dy, LineFuel)

\* line() with `as i32` applied to the arguments without round()
line_points_trunc(fx1, fy1, fx2, fy2) ==
    LET x1 == AsI32(RoundTowardZero(fx1))
        y1 == AsI32(RoundTowardZero(fy1))
        x2 == AsI32(RoundTowardZero(fx2))
        y2 == AsI32(RoundTowardZero(fy2))
        dx == Abs(x2 - x1)
        dy == -Abs(y2 - y1)
        sx == IF x1 < x2 THEN 1 ELSE -1
        sy == IF y1 < y2 THEN 1 ELSE -1
    IN  line_loop([x2 |-> x2, y2 |-> y2, dx |-> dx, dy |-> dy, sx |-> sx, sy |-> sy],
                  x1, y1, dx + dy, LineFuel)

line_points(fx1, fy1, fx2, fy2) ==
    LET x1 == AsI32(Round(fx1))
        y1 == AsI32(Round(fy1))
        x2 == AsI32(Round(fx2))
        y2 == AsI32(Round(fy2))
        dx == Abs(x2 - x1)
        dy == -Abs(y2 - y1)
        sx == IF x1 < x2 THEN 1 ELSE -1
        sy == IF y1 < y2 THEN 1 ELSE -1
    IN  line_loop([x2 |-> x2, y2 |-> y2, dx |-> dx, dy |-> dy, sx |-> sx, sy |-> sy],
                  x1, y1, dx + dy, LineFuel)

\* self.set(x as f32, y as f32) for each point of the loop, in order.  (The
\* test of the grid, never empty after set, makes TLC evaluate each call in
\* turn.)
RECURSIVE set_all(_, _)
set_all(c, pts) ==
    IF pts = <<>> THEN c
    ELSE LET nc == set(c, AsF32(Head(pts)[1]), AsF32(Head(pts)[2]))
         IN  IF nc.grid = EmptyGrid THEN nc ELSE set_all(nc, Tail(pts))

line(c, fx1, fy1, fx2, fy2) == set_all(c, line_points(fx1, fy1, fx2, fy2).pts)

\* std::char::from_u32(n).unwrap_or(' '): None for a surrogate or past 0x10FFFF.
CharFromU32(n) ==
    IF (n >= 55296 /\ n <= 57343) \/ n > 1114111 THEN Space ELSE n

\* an absent cell rendered as the blank braille pattern U+2800
Glyph_blank_braille(c, x, y) ==
    CharFromU32(BrailleBase + (IF <<x, y>> \in DOMAIN c.grid THEN c.grid[<<x, y>>] ELSE 0))

Glyph(c, x, y) ==
    IF <<x, y>> \in DOMAIN c.grid
    THEN CharFromU32(BrailleBase + c.grid[<<x, y>>])
    ELSE Space

FrameRow(c, y) ==
    [i \in 1..(c.max_x - c.min_x + 1) |-> Glyph(c, c.min_x + i - 1, y)] \o <<CR, LF>>

RECURSIVE FrameRows(_, _)
FrameRows(c, y) ==
    IF y > c.max_y THEN <<>> ELSE FrameRow(c, y) \o FrameRows(c, y + 1)

frame(c) == IF DOMAIN c.grid = {} THEN <<>> ELSE FrameRows(c, c.min_y)

\* no value of frame() at hand
NoOutput == <<-1>>

Pt(x, y) == <<AsI32(Round(x)), AsI32(Round(y))>>

\* the integer points set makes of f32 arguments, and the f32 arguments line
\* makes of integer points
PtsOf(fs) == [i \in 1..Len(fs) |-> Pt(fs[i][1], fs[i][2])]

AsF32s(pts) == [i \in 1..Len(pts) |-> <<AsF32(pts[i][1]), AsF32(pts[i][2])>>]

LastN(s, n) == IF Len(s) <= n THEN s ELSE SubSeq(s, Len(s) - n + 1, Len(s))

(***************************************************************************)
(* pdb.rs: the loader                                                      *)
(***************************************************************************)
\* f32 arithmetic on the fixed-point values, each result rounded to nearest
RoundDiv(n, d) == IF n >= 0 THEN (2 * n + d) \div (2 * d) ELSE -((2 * (-n) + d) \div (2 * d))

FMul(a, b) == RoundDiv(a * b, FP)

FDiv(a, b) == RoundDiv(a * FP, b)

VAdd(p, q) == <<p[1] + q[1], p[2] + q[2], p[3] + q[3]>>

VSub(p, q) == <<p[1] - q[1], p[2] - q[2], p[3] - q[3]>>

RECURSIVE VSum(_)
VSum(atoms) == IF atoms = <<>> THEN <<0, 0, 0>> ELSE VAdd(Head(atoms).pos, VSum(Tail(atoms)))

Model_new == [atoms |-> <<>>, connections |-> <<>>, center |-> <<0, 0, 0>>]

\* process_model that bonds across any forward gap in the residue numbers
process_model_any_gap(atoms) ==
    IF atoms = <<>> THEN Model_new
    ELSE LET sum == VSum(atoms)
             n == Len(atoms)
             center == <<RoundDiv(sum[1], n), RoundDiv(sum[2], n), RoundDiv(sum[3], n)>>
             centered == [i \in 1..n |-> [atoms[i] EXCEPT !.pos = VSub(atoms[i].pos, center)]]
         IN  [atoms |-> centered,
              connections |->
                  [i \in 1..(n - 1) |->
                      centered[i].chain_id = centered[i + 1].chain_id
                      /\ centered[i + 1].res_seq >= centered[i].res_seq],
              center |-> center]

process_model(atoms) ==
    IF atoms = <<>> THEN Model_new
    ELSE LET sum == VSum(atoms)
             n == Len(atoms)
             center == <<RoundDiv(sum[1], n), RoundDiv(sum[2], n), RoundDiv(sum[3], n)>>
             centered == [i \in 1..n |-> [atoms[i] EXCEPT !.pos = VSub(atoms[i].pos, center)]]
         IN  [atoms |-> centered,
              connections |->
                  [i \in 1..(n - 1) |->
                      IF centered[i].chain_id = centered[i + 1].chain_id
                      THEN IF centered[i].res_seq = centered[i + 1].res_seq THEN TRUE
                           ELSE IF centered[i + 1].res_seq = centered[i].res_seq + 1 THEN TRUE
                           ELSE FALSE
                      ELSE FALSE],
              center |-> center]

protein_bb == {"N", "CA", "C"}

nucleic_bb == {"P", "O5'", "C5'", "C4'", "C3'", "O3'"}

\* The lines of a file are records: [tag |-> "MODEL"], [tag |-> "ENDMDL"],
\* [tag |-> "ATOM", ok |-> parse_atom_line gave Some, atom |-> the Atom],
\* [tag |-> "OTHER"], or [tag |-> "ERR"] where reading the line fails.  The
\* loop of read_pdb over them and the push after it: [ok, models].
RECURSIVE read_lines(_, _, _)
read_lines(lines, ms, current_atoms) ==
    IF lines = <<>>
    THEN [ok |-> TRUE,
          models |-> IF current_atoms # <<>> THEN Append(ms, process_model(current_atoms))
                     ELSE ms]
    ELSE LET l == Head(lines)
         IN  IF l.tag = "ERR" THEN [ok |-> FALSE, models |-> <<>>]
             ELSE IF l.tag \in {"MODEL", "ENDMDL"}
             THEN IF current_atoms # <<>>
                  THEN read_lines(Tail(lines), Append(ms, process_model(current_atoms)), <<>>)
                  ELSE read_lines(Tail(lines), ms, current_atoms)
             ELSE IF l.tag = "ATOM" /\ l.ok /\ l.atom.name \in protein_bb \cup nucleic_bb
             THEN read_lines(Tail(lines), ms, Append(current_atoms, l.atom))
             ELSE read_lines(Tail(lines), ms, current_atoms)

\* read_pdb that returns what it has when the file cannot be read on
read_pdb_partial(file) ==
    LET r == read_lines(SelectSeq(file.lines, LAMBDA l : l.tag # "ERR"), <<>>, <<>>)
    IN  IF r.models = <<>> THEN [ok |-> TRUE, models |-> <<Model_new>>]
        ELSE [ok |-> TRUE, models |-> r.models]

\* read_pdb: Err when the file cannot be opened, when reading a line fails, or
\* when the file holds no backbone atom.
read_pdb(file) ==
    IF ~file.exists THEN [ok |-> FALSE, models |-> <<>>]
    ELSE LET r == read_lines(file.lines, <<>>, <<>>)
         IN  IF ~r.ok THEN [ok |-> FALSE, models |-> <<>>]
             ELSE IF r.models = <<>> THEN [ok |-> FALSE, models |-> <<>>]
             ELSE [ok |-> TRUE, models |-> r.models]

(***************************************************************************)
(* main.rs                                                                 *)
(***************************************************************************)
ZOOM_SPEED == 1100

TRANS_SPEED == 1000

ROT_SPEED == 100

SPIN_SPEED == 10

\* f32::sin and f32::cos of an angle near zero, by their series
Sin(a) ==
    LET a2 == FMul(a, a)
        a3 == FMul(a2, a)
        a5 == FMul(a3, a2)
    IN  a - RoundDiv(a3, 6) + RoundDiv(a5, 120)

Cos(a) ==
    LET a2 == FMul(a, a)
        a4 == FMul(a2, a2)
    IN  FP - RoundDiv(a2, 2) + RoundDiv(a4, 24)

\* Mat3::from_rotation_x(a) * p and Mat3::from_rotation_y(a) * p
RotX(a, p) ==
    <<p[1], FMul(Cos(a), p[2]) - FMul(Sin(a), p[3]), FMul(Sin(a), p[2]) + FMul(Cos(a), p[3])>>

RotY(a, p) ==
    <<FMul(Cos(a), p[1]) + FMul(Sin(a), p[3]), p[2], FMul(Cos(a), p[3]) - FMul(Sin(a), p[1])>>

Min2(a, b) == IF a < b THEN a ELSE b

Max2(a, b) == IF a > b THEN a ELSE b

RECURSIVE BoundsLoop(_, _, _)
BoundsLoop(atoms, lo, hi) ==
    IF atoms = <<>> THEN <<lo, hi>>
    ELSE LET q == Head(atoms).pos
         IN  BoundsLoop(Tail(atoms),
                        <<Min2(lo[1], q[1]), Min2(lo[2], q[2]), Min2(lo[3], q[3])>>,
                        <<Max2(hi[1], q[1]), Max2(hi[2], q[2]), Max2(hi[3], q[3])>>)

get_bounds(model) ==
    IF model.atoms = <<>> THEN << <<0, 0, 0>>, <<0, 0, 0>> >>
    ELSE BoundsLoop(Tail(model.atoms), Head(model.atoms).pos, Head(model.atoms).pos)

\* main.rs 59-63
InitialIdx(model_arg, n) == IF model_arg > 0 /\ model_arg <= n THEN model_arg - 1 ELSE 0

\* main.rs 70-85: the initial zoom and the four clip edges
InitialView(size, model0) ==
    LET b == get_bounds(model0)
        min_pt == b[1]
        max_pt == b[2]
        x_diff == max_pt[1] - min_pt[1]
        y_diff == max_pt[2] - min_pt[2]
        box_bound == Max2(x_diff, y_diff) + 2 * FP
        z == FDiv(size, box_bound)
    IN  [zoom |-> z,
         clip |-> [x_min |-> FMul(z, min_pt[1] - FDiv(box_bound - x_diff, 2 * FP)),
                   x_max |-> FMul(z, max_pt[1] + FDiv(box_bound - x_diff, 2 * FP)),
                   y_min |-> FMul(z, min_pt[2] - FDiv(box_bound - y_diff, 2 * FP)),
                   y_max |-> FMul(z, max_pt[2] + FDiv(box_bound - y_diff, 2 * FP))]]

\* main.rs 195-200: one atom through translation, the two rotations and zoom
Transform(pos, tr, ro, z) ==
    LET p0 == VAdd(pos, <<tr[1], tr[2], 0>>)
        p1 == RotX(ro[1], p0)
        p2 == RotY(ro[2], p1)
    IN  <<FMul(p2[1], z), FMul(p2[2], z), FMul(p2[3], z)>>

\* the clip test with the boundary included
Inside_inclusive(p, cl) ==
    p[1] >= cl.x_min /\ p[1] <= cl.x_max /\ p[2] >= cl.y_min /\ p[2] <= cl.y_max

\* main.rs 210-213
Inside(p, cl) == p[1] > cl.x_min /\ p[1] < cl.x_max /\ p[2] > cl.y_min /\ p[2] < cl.y_max

\* main.rs 158-168: the border
DrawBorder(c, cl) ==
    LET corners == << <<cl.x_min, cl.y_min>>, <<cl.x_max, cl.y_min>>,
                      <<cl.x_max, cl.y_max>>, <<cl.x_min, cl.y_max>> >>
        l1 == line(c, corners[1][1], corners[1][2], corners[2][1], corners[2][2])
        l2 == line(l1, corners[2][1], corners[2][2], corners[3][1], corners[3][2])
        l3 == line(l2, corners[3][1], corners[3][2], corners[4][1], corners[4][2])
    IN  line(l3, corners[4][1], corners[4][2], corners[1][1], corners[1][2])

\* the bond drawn when either of its two points is inside
BondDrawn_either(model, pts, cl, i) ==
    model.connections[i] /\ (Inside(pts[i], cl) \/ Inside(pts[i + 1], cl))

\* main.rs 204-216: whether the bond i is drawn
BondDrawn(model, pts, cl, i) ==
    model.connections[i] /\ Inside(pts[i], cl) /\ Inside(pts[i + 1], cl)

\* main.rs 203-217: the bonds from index i on
RECURSIVE DrawBonds(_, _, _, _, _)
DrawBonds(c, model, pts, cl, i) ==
    IF i > Len(model.connections) THEN c
    ELSE IF BondDrawn(model, pts, cl, i)
         THEN DrawBonds(line(c, pts[i][1], pts[i][2], pts[i + 1][1], pts[i + 1][2]),
                        model, pts, cl, i + 1)
         ELSE DrawBonds(c, model, pts, cl, i + 1)

\* the set calls the render pass makes for the bond i
BondCalls(model, pts, cl, i) ==
    IF BondDrawn(model, pts, cl, i)
    THEN AsF32s(line_points(pts[i][1], pts[i][2], pts[i + 1][1], pts[i + 1][2]).pts)
    ELSE <<>>

TransformAll(model, tr, ro, z) ==
    [i \in 1..Len(model.atoms) |-> Transform(model.atoms[i].pos, tr, ro, z)]

\* The files a run may be given.
Atom(name, chain_id, res_seq, x, y, z) ==
    [tag |-> "ATOM", ok |-> TRUE,
     atom |-> [name |-> name, chain_id |-> chain_id, res_seq |-> res_seq,
               pos |-> <<x * FP, y * FP, z * FP>>]]

ModelA ==
    <<Atom("N", "A", 1, -1, 0, 1), Atom("CA", "A", 1, 1, 2, 2), Atom("O", "A", 1, 9, 9, 9),
      Atom("C", "A", 2, 3, 1, 0)>>

ModelB ==
    <<Atom("P", "A", 5, -2, -2, 0), Atom("C4'", "A", 7, 0, 0, 0),
      [tag |-> "ATOM", ok |-> FALSE, atom |-> <<>>],
      Atom("P", "B", 8, 1, 1, 0), Atom("C4'", "B", 9, 1, 1, 0)>>

Files ==
    {[name |-> "missing", exists |-> FALSE, lines |-> <<>>],
     [name |-> "water", exists |-> TRUE,
      lines |-> <<[tag |-> "OTHER"], Atom("O", "A", 1, 0, 0, 0)>>],
     [name |-> "one", exists |-> TRUE, lines |-> <<[tag |-> "OTHER"]>> \o ModelA],
     [name |-> "torn", exists |-> TRUE, lines |-> ModelA \o <<[tag |-> "ERR"]>> \o ModelB],
     [name |-> "two", exists |-> TRUE,
      lines |-> <<[tag |-> "MODEL"]>> \o ModelA \o <<[tag |-> "ENDMDL"], [tag |-> "MODEL"]>>
                \o ModelB \o <<[tag |-> "ENDMDL"]>>]}

Sizes == {(99 * FP) \div 10, 10 * FP, (4005 * FP) \div 10}

ModelArgs == 0..3

KeyCodes == {"q", "Q", "Esc", "o", "O", "i", "I", "f", "F", "h", "H", "g", "G", "t", "T",
             "s", "S", "w", "W", "a", "A", "d", "D", "u", "U", "p", "P", "x"}

NoClip == [x_min |-> 0, x_max |-> 0, y_min |-> 0, y_max |-> 0]

\* no iteration of the loop begun
NoIter ==
    [event |-> "none", code |-> "none", spun |-> FALSE, cycled |-> FALSE,
     passes |-> 0, written |-> FALSE, at |-> <<>>]

\* main() not started: the state of the variables of main in the runs of the
\* Canvas alone
MainOff ==
    /\ pc = "off"
    /\ args = [input |-> "none", size |-> 0, model |-> 0]
    /\ models = <<>>
    /\ curr_model_idx = 0
    /\ zoom = 0
    /\ clip = NoClip
    /\ trans = <<0, 0>>
    /\ rot = <<0, 0>>
    /\ auto_spin = FALSE
    /\ cycle_models = FALSE
    /\ do_update = FALSE
    /\ term = [raw |-> FALSE, alt |-> FALSE, hidden |-> FALSE]
    /\ screen = NoOutput
    /\ result = "none"
    /\ iter = 0
    /\ tp = <<>>
    /\ drawn = <<>>
    /\ it = NoIter

(***************************************************************************)
(* The Canvas driven by its operations                                     *)
(***************************************************************************)
\* f32 arguments: the x values of spec.md 8 and their neighbours, y values on
\* both sides of the row boundaries, and every integer of the ranges.
WideXs == {x * FP : x \in (-MaxX)..MaxX}
          \cup {-(FP \div 2), -((4 * FP) \div 10), (4 * FP) \div 10, (19 * FP) \div 10}

WideYs == {y * FP : y \in (-MaxY)..MaxY} \cup {-((26 * FP) \div 10), (35 * FP) \div 10}

\* The few arguments of the runs that mix operations.
SomePts ==
    {<<-FP, -FP>>, <<-((4 * FP) \div 10), 0>>, <<0, 3 * FP>>,
     <<FP, (35 * FP) \div 10>>, <<(19 * FP) \div 10, 0>>, <<FP, FP>>}

SomeEnds == {<<-FP, -FP>>, <<(19 * FP) \div 10, 0>>, <<0, 4 * FP>>}

\* The set calls that built the Canvas a run of single operations starts from.
Seeds == {<<>>, << <<0, 3 * FP>>, <<-FP, -FP>> >>}

\* `ops` once the operation that was last becomes an earlier one
Pushed == LastN(Append(ops, last.op), 2)

RECURSIVE set_seq(_, _)
set_seq(c, fs) ==
    IF fs = <<>> THEN c
    ELSE set_seq(set(c, Head(fs)[1], Head(fs)[2]), Tail(fs))

Init ==
    /\ MainOff
    /\ canvas = CanvasNew
    /\ pre = CanvasNew
    /\ last = [op |-> "new", args |-> <<>>, returned |-> TRUE]
    /\ ops = <<>>
    /\ calls = <<>>
    /\ path = <<>>
    /\ output = NoOutput

\* A Canvas after new() and the set calls of a seed.
WideInit ==
    \E s \in Seeds :
        /\ MainOff
        /\ canvas = set_seq(CanvasNew, s)
        /\ pre = IF s = <<>> THEN CanvasNew ELSE set_seq(CanvasNew, SubSeq(s, 1, Len(s) - 1))
        /\ last = IF s = <<>> THEN [op |-> "new", args |-> <<>>, returned |-> TRUE]
                  ELSE [op |-> "set", args |-> s[Len(s)], returned |-> TRUE]
        /\ ops = IF s = <<>> THEN <<>>
                 ELSE LastN(<<"new">> \o [i \in 1..(Len(s) - 1) |-> "set"], 2)
        /\ calls = PtsOf(s)
        /\ path = <<>>
        /\ output = NoOutput

SetOp(x, y) ==
    /\ last.returned
    /\ UNCHANGED mvars
    /\ canvas' = set(canvas, x, y)
    /\ pre' = canvas
    /\ last' = [op |-> "set", args |-> <<x, y>>, returned |-> TRUE]
    /\ ops' = Pushed
    /\ calls' = Append(calls, Pt(x, y))
    /\ path' = <<>>
    /\ output' = NoOutput

\* line() either returns, having made the set calls of its loop, or is still in
\* the loop after LineFuel iterations and nothing runs after it.
LineOp(x1, y1, x2, y2) ==
    /\ last.returned
    /\ UNCHANGED mvars
    /\ LET r == line_points(x1, y1, x2, y2)
       IN  /\ canvas' = set_all(canvas, r.pts)
           /\ last' = [op |-> "line", args |-> <<x1, y1, x2, y2>>, returned |-> r.done]
           /\ path' = AsF32s(r.pts)
           /\ calls' = calls \o PtsOf(AsF32s(r.pts))
    /\ pre' = canvas
    /\ ops' = Pushed
    /\ output' = NoOutput

ClearOp ==
    /\ last.returned
    /\ UNCHANGED mvars
    /\ canvas' = clear(canvas)
    /\ pre' = canvas
    /\ last' = [op |-> "clear", args |-> <<>>, returned |-> TRUE]
    /\ ops' = Pushed
    /\ calls' = <<>>
    /\ path' = <<>>
    /\ output' = NoOutput

FrameOp ==
    /\ last.returned
    /\ UNCHANGED mvars
    /\ last.op # "frame"
    /\ output' = frame(canvas)
    /\ pre' = canvas
    /\ last' = [op |-> "frame", args |-> <<>>, returned |-> TRUE]
    /\ ops' = Pushed
    /\ UNCHANGED <<canvas, calls, path>>

\* Any sequence of operations, at most MaxCalls set or line calls between clears.
Next ==
    \/ Len(calls) < MaxCalls /\ \E p \in SomePts : SetOp(p[1], p[2])
    \/ Len(calls) < MaxCalls /\ \E p \in SomeEnds, q \in SomeEnds :
                                    LineOp(p[1], p[2], q[1], q[2])
    \/ ClearOp
    \/ FrameOp

Spec == Init /\ [][Next]_vars

\* One operation on a seeded Canvas, its arguments from the wide ranges.
AtSeed == calls \in {PtsOf(s) : s \in Seeds}

WideNext ==
    \/ AtSeed /\ \E x \in WideXs, y \in WideYs : SetOp(x, y)
    \/ AtSeed /\ \E x1 \in WideXs, y1 \in WideYs, x2 \in WideXs, y2 \in WideYs :
                     LineOp(x1, y1, x2, y2)
    \/ FrameOp

WideSpec == WideInit /\ [][WideNext]_vars

(***************************************************************************)
(* main(): argument check, load, terminal setup, the loop, cleanup         *)
(***************************************************************************)
HarnessOff ==
    /\ pre = CanvasNew
    /\ last = [op |-> "new", args |-> <<>>, returned |-> TRUE]
    /\ ops = <<>>
    /\ calls = <<>>
    /\ path = <<>>
    /\ output = NoOutput

MainInit ==
    /\ canvas = CanvasNew
    /\ HarnessOff
    /\ pc = "args"
    /\ args \in [input : Files, size : Sizes, model : ModelArgs]
    /\ models = <<>>
    /\ curr_model_idx = 0
    /\ zoom = 0
    /\ clip = NoClip
    /\ trans = <<0, 0>>
    /\ rot = <<0, 0>>
    /\ auto_spin = FALSE
    /\ cycle_models = FALSE
    /\ do_update = FALSE
    /\ term = [raw |-> FALSE, alt |-> FALSE, hidden |-> FALSE]
    /\ screen = NoOutput
    /\ result = "none"
    /\ iter = 0
    /\ tp = <<>>
    /\ drawn = <<>>
    /\ it = NoIter

\* the check of the size with its upper limit left out
Validate_no_upper ==
    /\ pc = "args"
    /\ IF args.size < 10 * FP
       THEN pc' = "done" /\ result' = "ok"
       ELSE pc' = "load" /\ result' = result
    /\ UNCHANGED <<canvas, hvars, args, models, curr_model_idx, zoom, clip, trans, rot,
                   auto_spin, cycle_models, do_update, term, screen, iter, tp, drawn, it>>

\* main.rs 50-54
Validate ==
    /\ pc = "args"
    /\ IF args.size < 10 * FP \/ args.size > 400 * FP
       THEN pc' = "done" /\ result' = "ok"
       ELSE pc' = "load" /\ result' = result
    /\ UNCHANGED <<canvas, hvars, args, models, curr_model_idx, zoom, clip, trans, rot,
                   auto_spin, cycle_models, do_update, term, screen, iter, tp, drawn, it>>

\* main.rs 56-94
Load ==
    /\ pc = "load"
    /\ LET r == read_pdb(args.input)
       IN  IF ~r.ok
           THEN /\ pc' = "done" /\ result' = "err"
                /\ UNCHANGED <<models, curr_model_idx, zoom, clip, do_update>>
           ELSE LET idx == InitialIdx(args.model, Len(r.models))
                    v == InitialView(args.size, r.models[idx + 1])
                IN  /\ pc' = "setup" /\ result' = result
                    /\ models' = r.models
                    /\ curr_model_idx' = idx
                    /\ zoom' = v.zoom
                    /\ clip' = v.clip
                    /\ do_update' = TRUE
    /\ UNCHANGED <<canvas, hvars, args, trans, rot, auto_spin, cycle_models, term, screen,
                   iter, tp, drawn, it>>

\* main.rs 100-104; `failed` is the call that returns Err, if one does
Setup(failed) ==
    /\ pc = "setup"
    /\ term' = [raw |-> failed # "enable_raw_mode",
                alt |-> failed = "none", hidden |-> failed = "none"]
    /\ IF failed = "none" THEN pc' = "poll" /\ result' = result
                          ELSE pc' = "done" /\ result' = "err"
    /\ canvas' = CanvasNew
    /\ UNCHANGED <<hvars, args, models, curr_model_idx, zoom, clip, trans, rot, auto_spin,
                   cycle_models, do_update, screen, iter, tp, drawn, it>>

\* main.rs 112-132: what a key that does not quit does to the view
KeyView(code) ==
    /\ zoom' = IF code \in {"o", "O"} THEN FDiv(zoom, ZOOM_SPEED)
               ELSE IF code \in {"i", "I"} THEN FMul(zoom, ZOOM_SPEED)
               ELSE zoom
    /\ trans' = IF code \in {"f", "F"} THEN <<trans[1] - TRANS_SPEED, trans[2]>>
                ELSE IF code \in {"h", "H"} THEN <<trans[1] + TRANS_SPEED, trans[2]>>
                ELSE IF code \in {"g", "G"} THEN <<trans[1], trans[2] - TRANS_SPEED>>
                ELSE IF code \in {"t", "T"} THEN <<trans[1], trans[2] + TRANS_SPEED>>
                ELSE trans
    /\ rot' = IF code \in {"s", "S"} THEN <<rot[1] - ROT_SPEED, rot[2]>>
              ELSE IF code \in {"w", "W"} THEN <<rot[1] + ROT_SPEED, rot[2]>>
              ELSE IF code \in {"a", "A"} THEN <<rot[1], rot[2] - ROT_SPEED>>
              ELSE IF code \in {"d", "D"} THEN <<rot[1], rot[2] + ROT_SPEED>>
              ELSE rot
    /\ auto_spin' = IF code \in {"u", "U"} THEN ~auto_spin ELSE auto_spin
    /\ cycle_models' = IF code \in {"p", "P"} /\ Len(models) > 1
                       THEN ~cycle_models ELSE cycle_models

\* a key handler that also moves the clip rectangle with the zoom
KeyEffect_reclip(code) ==
    /\ KeyView(code)
    /\ clip' = [x_min |-> FMul(FDiv(clip.x_min, zoom), zoom'),
                x_max |-> FMul(FDiv(clip.x_max, zoom), zoom'),
                y_min |-> FMul(FDiv(clip.y_min, zoom), zoom'),
                y_max |-> FMul(FDiv(clip.y_max, zoom), zoom')]

KeyEffect(code) ==
    /\ KeyView(code)
    /\ clip' = clip

IsQuit(code) == code \in {"q", "Q", "Esc"}

\* what the loop holds when an iteration begins
AtPoll ==
    [curr_model_idx |-> curr_model_idx, zoom |-> zoom, trans |-> trans, rot |-> rot,
     auto_spin |-> auto_spin, cycle_models |-> cycle_models, do_update |-> do_update,
     canvas |-> canvas, screen |-> screen]

Events ==
    {[kind |-> k, code |-> "none"] : k \in {"timeout", "poll_err", "read_err", "other"}}
    \cup {[kind |-> "key", code |-> c] : c \in KeyCodes}

\* the loop asking for a render pass only for the keys it knows
Poll_known_keys(ev) ==
    /\ pc = "poll"
    /\ iter < MaxIter
    /\ iter' = iter + 1
    /\ it' = [event |-> ev.kind, code |-> ev.code, spun |-> FALSE, cycled |-> FALSE,
              passes |-> 0, written |-> FALSE, at |-> AtPoll]
    /\ IF ev.kind \in {"poll_err", "read_err"}
       THEN /\ pc' = "done" /\ result' = "err"
            /\ UNCHANGED <<zoom, trans, rot, auto_spin, cycle_models, clip, do_update>>
       ELSE IF ev.kind = "key"
       THEN /\ do_update' = (do_update \/ ev.code # "x")
            /\ result' = result
            /\ IF IsQuit(ev.code)
               THEN /\ pc' = "cleanup"
                    /\ UNCHANGED <<zoom, trans, rot, auto_spin, cycle_models, clip>>
               ELSE /\ pc' = "tick"
                    /\ KeyEffect(ev.code)
       ELSE /\ pc' = "tick" /\ result' = result
            /\ UNCHANGED <<zoom, trans, rot, auto_spin, cycle_models, clip, do_update>>
    /\ UNCHANGED <<canvas, hvars, args, models, curr_model_idx, term, screen, tp, drawn>>

\* main.rs 108-136: poll, read, and the event applied
Poll(ev) ==
    /\ pc = "poll"
    /\ iter < MaxIter
    /\ iter' = iter + 1
    /\ it' = [event |-> ev.kind, code |-> ev.code, spun |-> FALSE, cycled |-> FALSE,
              passes |-> 0, written |-> FALSE, at |-> AtPoll]
    /\ IF ev.kind \in {"poll_err", "read_err"}
       THEN /\ pc' = "done" /\ result' = "err"
            /\ UNCHANGED <<zoom, trans, rot, auto_spin, cycle_models, clip, do_update>>
       ELSE IF ev.kind = "key"
       THEN /\ do_update' = TRUE
            /\ result' = result
            /\ IF IsQuit(ev.code)
               THEN /\ pc' = "cleanup"
                    /\ UNCHANGED <<zoom, trans, rot, auto_spin, cycle_models, clip>>
               ELSE /\ pc' = "tick"
                    /\ KeyEffect(ev.code)
       ELSE /\ pc' = "tick" /\ result' = result
            /\ UNCHANGED <<zoom, trans, rot, auto_spin, cycle_models, clip, do_update>>
    /\ UNCHANGED <<canvas, hvars, args, models, curr_model_idx, term, screen, tp, drawn>>

\* the increments made without asking for the render pass
Tick_no_update ==
    /\ pc = "tick"
    /\ pc' = "render"
    /\ rot' = IF auto_spin THEN <<rot[1], rot[2] + SPIN_SPEED>> ELSE rot
    /\ curr_model_idx' = IF cycle_models THEN (curr_model_idx + 1) % Len(models)
                         ELSE curr_model_idx
    /\ do_update' = do_update
    /\ it' = [it EXCEPT !.spun = auto_spin, !.cycled = cycle_models]
    /\ UNCHANGED <<canvas, hvars, args, models, zoom, clip, trans, auto_spin, cycle_models,
                   term, screen, result, iter, tp, drawn>>

\* the cycling step that moves on by two models
Tick_skip ==
    /\ pc = "tick"
    /\ pc' = "render"
    /\ rot' = IF auto_spin THEN <<rot[1], rot[2] + SPIN_SPEED>> ELSE rot
    /\ curr_model_idx' = IF cycle_models THEN (curr_model_idx + 2) % Len(models)
                         ELSE curr_model_idx
    /\ do_update' = (do_update \/ auto_spin \/ cycle_models)
    /\ it' = [it EXCEPT !.spun = auto_spin, !.cycled = cycle_models]
    /\ UNCHANGED <<canvas, hvars, args, models, zoom, clip, trans, auto_spin, cycle_models,
                   term, screen, result, iter, tp, drawn>>

\* main.rs 138-146
Tick ==
    /\ pc = "tick"
    /\ pc' = "render"
    /\ rot' = IF auto_spin THEN <<rot[1], rot[2] + SPIN_SPEED>> ELSE rot
    /\ curr_model_idx' = IF cycle_models THEN (curr_model_idx + 1) % Len(models)
                         ELSE curr_model_idx
    /\ do_update' = (do_update \/ auto_spin \/ cycle_models)
    /\ it' = [it EXCEPT !.spun = auto_spin, !.cycled = cycle_models]
    /\ UNCHANGED <<canvas, hvars, args, models, zoom, clip, trans, auto_spin, cycle_models,
                   term, screen, result, iter, tp, drawn>>

\* the render pass that makes the pass again when a write fails
Render_retry(written) ==
    /\ pc = "render"
    /\ IF do_update
       THEN LET model == models[curr_model_idx + 1]
                pts == TransformAll(model, trans, rot, zoom)
                c == DrawBonds(DrawBorder(clear(canvas), clip), model, pts, clip, 1)
            IN  /\ do_update' = ~written
                /\ it' = [it EXCEPT !.passes = IF @ < 2 THEN @ + 1 ELSE @, !.written = written]
                /\ canvas' = c
                /\ tp' = pts
                /\ drawn' = [i \in 1..Len(model.connections) |-> BondCalls(model, pts, clip, i)]
                /\ result' = result
                /\ IF written
                   THEN screen' = frame(c) /\ pc' = "poll"
                   ELSE screen' = screen /\ pc' = "render"
       ELSE /\ written
            /\ pc' = "poll"
            /\ UNCHANGED <<do_update, canvas, tp, drawn, screen, result, it>>
    /\ UNCHANGED <<hvars, args, models, curr_model_idx, zoom, clip, trans, rot, auto_spin,
                   cycle_models, term, iter>>

\* main.rs 148-225: the render pass; written = the execute! calls all returned Ok
Render(written) ==
    /\ pc = "render"
    /\ IF do_update
       THEN LET model == models[curr_model_idx + 1]
                pts == TransformAll(model, trans, rot, zoom)
                c == DrawBonds(DrawBorder(clear(canvas), clip), model, pts, clip, 1)
            IN  /\ do_update' = FALSE
                /\ it' = [it EXCEPT !.passes = @ + 1, !.written = written]
                /\ canvas' = c
                /\ tp' = pts
                /\ drawn' = [i \in 1..Len(model.connections) |-> BondCalls(model, pts, clip, i)]
                /\ IF written
                   THEN screen' = frame(c) /\ pc' = "poll" /\ result' = result
                   ELSE screen' = screen /\ pc' = "done" /\ result' = "err"
       ELSE /\ written
            /\ pc' = "poll"
            /\ UNCHANGED <<do_update, canvas, tp, drawn, screen, result, it>>
    /\ UNCHANGED <<hvars, args, models, curr_model_idx, zoom, clip, trans, rot, auto_spin,
                   cycle_models, term, iter>>

\* the cleanup that returns Ok with raw mode left enabled
Cleanup_keeps_raw(failed) ==
    /\ pc = "cleanup"
    /\ pc' = "done"
    /\ IF failed = "execute" THEN term' = term /\ result' = "err"
       ELSE /\ term' = [raw |-> TRUE, alt |-> FALSE, hidden |-> FALSE]
            /\ result' = IF failed = "none" THEN "ok" ELSE "err"
    /\ UNCHANGED <<canvas, hvars, args, models, curr_model_idx, zoom, clip, trans, rot,
                   auto_spin, cycle_models, do_update, screen, iter, tp, drawn, it>>

\* main.rs 228-232; `failed` is the call that returns Err, if one does:
\* execute!(Show, LeaveAlternateScreen) returns before disable_raw_mode is
\* called, disable_raw_mode after the cursor is shown and the screen left
Cleanup(failed) ==
    /\ pc = "cleanup"
    /\ pc' = "done"
    /\ IF failed = "execute" THEN term' = term /\ result' = "err"
       ELSE IF failed = "disable_raw_mode"
       THEN term' = [raw |-> TRUE, alt |-> FALSE, hidden |-> FALSE] /\ result' = "err"
       ELSE term' = [raw |-> FALSE, alt |-> FALSE, hidden |-> FALSE] /\ result' = "ok"
    /\ UNCHANGED <<canvas, hvars, args, models, curr_model_idx, zoom, clip, trans, rot,
                   auto_spin, cycle_models, do_update, screen, iter, tp, drawn, it>>

MainNext ==
    \/ Validate
    \/ Load
    \/ \E failed \in {"none", "enable_raw_mode", "execute"} : Setup(failed)
    \/ \E ev \in Events : Poll(ev)
    \/ Tick
    \/ \E written \in BOOLEAN : Render(written)
    \/ \E failed \in {"none", "execute", "disable_raw_mode"} : Cleanup(failed)

MainSpec == MainInit /\ [][MainNext]_vars

(***************************************************************************)
(* The loader alone: read_pdb on the files of a bounded family             *)
(***************************************************************************)
LoaderAtoms ==
    {Atom(n, c, r, r, 0, 0) : n \in {"CA", "O"}, c \in {"A", "B"}, r \in 1..MaxRes}

\* files of two models of the same two ATOM lines, and files of three ATOM
\* lines without MODEL records
LoaderFiles ==
    {[name |-> "gen", exists |-> TRUE,
      lines |-> <<[tag |-> "MODEL"], a, b, [tag |-> "ENDMDL"],
                  [tag |-> "MODEL"], a, b, [tag |-> "ENDMDL"]>>] :
        a \in LoaderAtoms, b \in LoaderAtoms}
    \cup {[name |-> "gen", exists |-> TRUE, lines |-> <<a, b, c>>] :
              a \in LoaderAtoms, b \in LoaderAtoms, c \in LoaderAtoms}

LoaderInit ==
    /\ canvas = CanvasNew
    /\ HarnessOff
    /\ pc = "load"
    /\ args \in [input : LoaderFiles, size : {100 * FP}, model : {1}]
    /\ models = <<>>
    /\ curr_model_idx = 0
    /\ zoom = 0
    /\ clip = NoClip
    /\ trans = <<0, 0>>
    /\ rot = <<0, 0>>
    /\ auto_spin = FALSE
    /\ cycle_models = FALSE
    /\ do_update = FALSE
    /\ term = [raw |-> FALSE, alt |-> FALSE, hidden |-> FALSE]
    /\ screen = NoOutput
    /\ result = "none"
    /\ iter = 0
    /\ tp = <<>>
    /\ drawn = <<>>
    /\ it = NoIter

LoaderSpec == LoaderInit /\ [][Load]_vars

(***************************************************************************)
(* Properties of the Canvas                                                *)
(***************************************************************************)
Keys(c) == DOMAIN c.grid

MinOf(S) == CHOOSE m \in S : \A n \in S : m <= n

MaxOf(S) == CHOOSE m \in S : \A n \in S : m >= n

Cols(c) == {k[1] : k \in Keys(c)}

Rows(c) == {k[2] : k \in Keys(c)}

\* the bits of a mask, as the set of their positions
Bits(m) == {i \in 0..7 : (m \div (2 ^ i)) % 2 = 1}

\* the table of spec.md 4.1 / canvas.rs 47-57, by (x mod 2, y mod 4)
BitTable == << <<1, 2, 4, 64>>, <<8, 16, 32, 128>> >>

\* the cells whose stored mask the last operation changed or created
ChangedKeys ==
    {k \in Keys(canvas) : k \notin Keys(pre) \/ canvas.grid[k] # pre.grid[k]}

\* C1: after any sequence of new, set, line and clear the bounding rectangle
\* is exactly the minimum and maximum column and row over the cells present
\* in the grid, and the empty sentinel (min = i32::MAX, max = i32::MIN) when
\* the grid is empty.
C1_BoundsExact ==
    IF Keys(canvas) = {}
    THEN /\ canvas.min_x = I32Max /\ canvas.max_x = I32Min
         /\ canvas.min_y = I32Max /\ canvas.max_y = I32Min
    ELSE /\ canvas.min_x = MinOf(Cols(canvas)) /\ canvas.max_x = MaxOf(Cols(canvas))
         /\ canvas.min_y = MinOf(Rows(canvas)) /\ canvas.max_y = MaxOf(Rows(canvas))

\* a set or line after a clear, on a Canvas that spans several columns and rows
C1_Witness ==
    /\ \E i \in 1..Len(ops) : ops[i] = "clear"
    /\ last.op \in {"set", "line"}
    /\ canvas.min_x < canvas.max_x
    /\ canvas.min_y < canvas.max_y
    /\ Cardinality(Keys(canvas)) >= 3

\* C2: for every integer sub-cell coordinate (x, y), negative ones included,
\* set addresses the cell (floor(x/2), floor(y/4)) and ORs into its mask
\* exactly one bit, the one the table gives for (x mod 2, y mod 4); it
\* changes no other cell; the eight bits are pairwise distinct and no cell is
\* stored with mask 0.
C2_FloorCellSingleBit ==
    /\ \A x \in (-2 * MaxX - 1)..(2 * MaxX + 1), y \in (-2 * MaxY - 1)..(2 * MaxY + 1) :
           get_pixel_map(x, y) = << <<x \div 2, y \div 4>>, BitTable[(x % 2) + 1][(y % 4) + 1] >>
    /\ Cardinality({PixelMask(sx, sy) : sx \in 0..1, sy \in 0..3}) = 8
    /\ \A sx \in 0..1, sy \in 0..3 : Cardinality(Bits(PixelMask(sx, sy))) = 1
    /\ \A k \in Keys(canvas) : canvas.grid[k] # 0
    /\ last.op = "set" =>
           LET p == Pt(last.args[1], last.args[2])
               key == <<p[1] \div 2, p[2] \div 4>>
               bit == BitTable[(p[1] % 2) + 1][(p[2] % 4) + 1]
               old == IF key \in Keys(pre) THEN pre.grid[key] ELSE 0
           IN  /\ Keys(canvas) = Keys(pre) \cup {key}
               /\ Bits(canvas.grid[key]) = Bits(old) \cup Bits(bit)
               /\ \A k \in Keys(pre) \ {key} : canvas.grid[k] = pre.grid[k]

\* set(-1, -2) ORs 0x20 into the cell (-1, -1), which held 0x80
C2_Witness ==
    /\ last.op = "set"
    /\ Pt(last.args[1], last.args[2]) = <<-1, -2>>
    /\ <<-1, -1>> \in Keys(pre)
    /\ pre.grid[<<-1, -1>>] = 128
    /\ canvas.grid[<<-1, -1>>] = 160

\* C3 as stated: set(x, y) for x = -1 and for x = -0.4 both touch a cell in
\* column -1.
C3_Original ==
    (last.op = "set" /\ last.args[1] \in {-FP, -((4 * FP) \div 10)}) =>
        /\ \A k \in ChangedKeys : k[1] = -1
        /\ \E k \in Keys(canvas) : k[1] = -1

\* C3, amended: set(x, y) for x = -1 touches a cell in column -1 (floor, where
\* truncating division gives column 0), and so does x = -0.5, which rounds to
\* -1; x = -0.4 rounds to 0 and touches a cell in column 0.
C3_FloorColumn ==
    last.op = "set" =>
        LET cell == get_pixel_map(Pt(last.args[1], last.args[2])[1],
                                  Pt(last.args[1], last.args[2])[2])[1]
        IN  /\ cell \in Keys(canvas)
            /\ \A k \in ChangedKeys : k = cell
            /\ last.args[1] \in {-FP, -(FP \div 2)} => cell[1] = -1
            /\ last.args[1] \in {-((4 * FP) \div 10), 0, (4 * FP) \div 10, FP} => cell[1] = 0
            /\ last.args[1] \in {(19 * FP) \div 10, 2 * FP} => cell[1] = 1

\* set(-1, y) on a Canvas without a cell in column -1 creates one there
C3_Witness ==
    /\ last.op = "set"
    /\ last.args[1] = -FP
    /\ -1 \notin Cols(pre)
    /\ ChangedKeys # {}
    /\ \A k \in ChangedKeys : k[1] = -1

\* the cell and the bit of an integer sub-cell point, by floor and the table
CellOf(p) == <<p[1] \div 2, p[2] \div 4>>

BitOf(p) == BitTable[(p[1] % 2) + 1][(p[2] % 4) + 1]

Range(s) == {s[i] : i \in 1..Len(s)}

Perms(n) == {f \in [1..n -> 1..n] : \A i, j \in 1..n : f[i] = f[j] => i = j}

\* the code point frame() put in `output` for the cell k of the rectangle
Emitted(k) ==
    output[(k[2] - canvas.min_y) * (canvas.max_x - canvas.min_x + 3)
           + (k[1] - canvas.min_x) + 1]

\* C4: for every cell, after any sequence of set calls since the last clear,
\* the stored mask (and the glyph offset frame() emits for the cell) is the OR
\* of the bits of all set calls that mapped to the cell, and replaying the
\* calls in any other order gives the same grid.
C4_MaskIsOrOfCalls ==
    /\ Keys(canvas) = {CellOf(p) : p \in Range(calls)}
    /\ \A k \in Keys(canvas) :
           Bits(canvas.grid[k]) =
               UNION {Bits(BitOf(p)) : p \in {q \in Range(calls) : CellOf(q) = k}}
    /\ last.op = "frame" =>
           \A k \in Keys(canvas) : Emitted(k) - BrailleBase = canvas.grid[k]
    /\ Len(calls) <= MaxPerm =>
           \A f \in Perms(Len(calls)) :
               set_all(CanvasNew, [i \in 1..Len(calls) |-> calls[f[i]]]) = canvas
    /\ \A i, j \in 1..Len(calls) :
           set_all(CanvasNew, [n \in 1..Len(calls) |->
                                  IF n = i THEN calls[j] ELSE IF n = j THEN calls[i]
                                  ELSE calls[n]]) = canvas

\* frame() after set(-0.4, 0) and set(0, 3): the cell (0, 0) holds 0x01 | 0x40
C4_Witness ==
    /\ last.op = "frame"
    /\ Len(calls) = 2
    /\ calls[1] # calls[2]
    /\ <<0, 0>> \in Keys(canvas)
    /\ canvas.grid[<<0, 0>>] = 65
    /\ Emitted(<<0, 0>>) = BrailleBase + 65

\* the last line call with its endpoints swapped, from the same Canvas
Swapped == line_points(last.args[3], last.args[4], last.args[1], last.args[2])

SwappedCanvas == line(pre, last.args[3], last.args[4], last.args[1], last.args[2])

LineA == Pt(last.args[1], last.args[2])

LineB == Pt(last.args[3], last.args[4])

LineDx == Abs(LineB[1] - LineA[1])

LineDy == Abs(LineB[2] - LineA[2])

\* C5 as stated: from the same Canvas, line(x1,y1,x2,y2) and line(x2,y2,x1,y1)
\* produce the same set of grid keys.
C5_Original ==
    last.op = "line" => Keys(SwappedCanvas) = Keys(canvas)

\* C5, amended: from the same Canvas, line(x2,y2,x1,y1) sets the points of
\* line(x1,y1,x2,y2) reflected through the midpoint (its i-th point is
\* (x1+x2, y1+y2) minus the i-th point of the other), so both set the same
\* number of points, both touch the cells of both endpoints and both leave
\* the same bounding rectangle; the sets of touched cells are the same when
\* the line is horizontal, vertical or diagonal, and may differ otherwise.
C5_SwapReflects ==
    last.op = "line" =>
        /\ last.returned /\ Swapped.done
        /\ Len(Swapped.pts) = Len(path)
        /\ \A i \in 1..Len(path) :
               Swapped.pts[i] = <<LineA[1] + LineB[1] - Pt(path[i][1], path[i][2])[1],
                                  LineA[2] + LineB[2] - Pt(path[i][1], path[i][2])[2]>>
        /\ {CellOf(LineA), CellOf(LineB)} \subseteq Keys(canvas) \cap Keys(SwappedCanvas)
        /\ SwappedCanvas.min_x = canvas.min_x /\ SwappedCanvas.max_x = canvas.max_x
        /\ SwappedCanvas.min_y = canvas.min_y /\ SwappedCanvas.max_y = canvas.max_y
        /\ (LineDx = 0 \/ LineDy = 0 \/ LineDx = LineDy) =>
               Keys(SwappedCanvas) = Keys(canvas)

\* a slanted line right to left over several cells whose swapped call touches
\* other cells
C5_Witness ==
    /\ last.op = "line"
    /\ LineB[1] < LineA[1]
    /\ LineDx > 0 /\ LineDy > LineDx
    /\ Cardinality(Keys(canvas)) >= 3
    /\ Keys(SwappedCanvas) # Keys(canvas)

\* C6: line terminates and calls set on a minimal 8-connected path of integer
\* sub-cell points: the first is the rounded (x1, y1), the last the rounded
\* (x2, y2), each next point differs from the one before by at most 1 in x
\* and in y and is not equal to it, and max(|x2-x1|, |y2-y1|) + 1 points are
\* set, each once.
C6_LinePath ==
    /\ last.returned
    /\ last.op = "line" =>
           LET pts == PtsOf(path)
               n == Len(path)
           IN  /\ n = (IF LineDx > LineDy THEN LineDx ELSE LineDy) + 1
               /\ path = AsF32s(pts)
               /\ pts[1] = LineA
               /\ pts[n] = LineB
               /\ \A i \in 1..(n - 1) :
                      /\ Abs(pts[i + 1][1] - pts[i][1]) <= 1
                      /\ Abs(pts[i + 1][2] - pts[i][2]) <= 1
                      /\ pts[i + 1] # pts[i]
               /\ \A i, j \in 1..n : pts[i] = pts[j] => i = j
               /\ SubSeq(calls, Len(calls) - n + 1, Len(calls)) = pts
               /\ SubSeq(calls, 1, Len(calls) - n) \in {PtsOf(sd) : sd \in Seeds}
               /\ {CellOf(q) : q \in Range(pts)} \subseteq Keys(canvas)

\* a steep line drawn upwards and to the left between fractional endpoints
C6_Witness ==
    /\ last.op = "line"
    /\ last.returned
    /\ last.args[1] = (19 * FP) \div 10
    /\ last.args[2] = (35 * FP) \div 10
    /\ LineB[1] < LineA[1] - 1
    /\ LineB[2] < LineA[2] - LineDx
    /\ Len(path) >= 6

\* C8: clear() followed by frame() returns the empty string, whatever the
\* Canvas held before.
C8_ClearThenFrameEmpty ==
    (last.op = "frame" /\ Len(ops) >= 1 /\ ops[Len(ops)] = "clear") => output = <<>>

\* line, clear, frame: the cleared Canvas held the cells of a line
C8_Witness ==
    /\ last.op = "frame"
    /\ ops = <<"line", "clear">>
    /\ output = <<>>

\* C9: for a non-empty Canvas frame() emits max_y - min_y + 1 rows in
\* increasing row order, each of max_x - min_x + 1 glyphs in increasing column
\* order followed by CR LF; a present cell's glyph is the code point
\* 0x2800 + mask, an absent cell's is a space.
C9_FrameLayout ==
    (last.op = "frame" /\ Keys(canvas) # {}) =>
        LET w == canvas.max_x - canvas.min_x + 1
            h == canvas.max_y - canvas.min_y + 1
        IN  /\ Len(output) = h * (w + 2)
            /\ \A r \in 0..(h - 1) :
                   /\ \A c \in 0..(w - 1) :
                          output[r * (w + 2) + c + 1] =
                              IF <<canvas.min_x + c, canvas.min_y + r>> \in Keys(canvas)
                              THEN 10240 + canvas.grid[<<canvas.min_x + c, canvas.min_y + r>>]
                              ELSE 32
                   /\ output[r * (w + 2) + w + 1] = 13
                   /\ output[r * (w + 2) + w + 2] = 10

\* a frame of several rows and columns with absent cells inside the rectangle
C9_Witness ==
    /\ last.op = "frame"
    /\ Keys(canvas) # {}
    /\ canvas.max_x - canvas.min_x >= 2
    /\ canvas.max_y - canvas.min_y >= 1
    /\ \E x \in canvas.min_x..canvas.max_x, y \in canvas.min_y..canvas.max_y :
           <<x, y>> \notin Keys(canvas)
    /\ Cardinality(Keys(canvas)) >= 3

(***************************************************************************)
(* Properties of the render pass                                           *)
(***************************************************************************)
\* a render pass has been made and the view is still the one it drew
Rendered == pc \in {"poll", "cleanup"} /\ tp # <<>>

ActiveModel == models[curr_model_idx + 1]

\* strictly inside the clip rectangle on both axes
StrictlyIn(p) ==
    /\ clip.x_min < p[1] /\ p[1] < clip.x_max
    /\ clip.y_min < p[2] /\ p[2] < clip.y_max

RECURSIVE Flatten(_)
Flatten(ss) == IF ss = <<>> THEN <<>> ELSE Head(ss) \o Flatten(Tail(ss))

\* C7: in every render pass, for each bond i with bond[i] true, the line
\* between the transformed atoms i and i+1 is drawn if and only if both points
\* lie strictly inside the clip rectangle on both axes; otherwise no set call
\* at all is made for the bond: the Canvas holds the border and the lines of
\* the drawn bonds, from endpoint to endpoint, and nothing else.
C7_BondDrawnIffBothInside ==
    Rendered =>
        /\ Len(drawn) = Len(ActiveModel.connections)
        /\ \A i \in 1..Len(drawn) :
               /\ ActiveModel.connections[i] =>
                      ((drawn[i] # <<>>) <=> (StrictlyIn(tp[i]) /\ StrictlyIn(tp[i + 1])))
               /\ ~ActiveModel.connections[i] => drawn[i] = <<>>
               /\ drawn[i] # <<>> =>
                      /\ PtsOf(drawn[i])[1] = Pt(tp[i][1], tp[i][2])
                      /\ PtsOf(drawn[i])[Len(drawn[i])] = Pt(tp[i + 1][1], tp[i + 1][2])
        /\ canvas = set_seq(DrawBorder(CanvasNew, clip), Flatten(drawn))

\* a render pass that draws one bond and drops another, which has one endpoint
\* inside and one outside or on the boundary
C7_Witness ==
    /\ Rendered
    /\ \E i, j \in 1..Len(drawn) :
           /\ ActiveModel.connections[i]
           /\ drawn[i] = <<>>
           /\ StrictlyIn(tp[i]) # StrictlyIn(tp[i + 1])
           /\ drawn[j] # <<>>

\* C10: the four clip edges are those computed at load time from the initial
\* model and the viewport size, whatever keys, auto-spin increments and
\* model-cycling steps followed, while the points a render pass tests against
\* them are scaled by the current zoom.
C10_ClipFixedZoomCurrent ==
    /\ pc \in {"setup", "poll", "tick", "render", "cleanup"} =>
           clip = InitialView(args.size,
                              models[InitialIdx(args.model, Len(models)) + 1]).clip
    /\ Rendered =>
           \A i \in 1..Len(tp) :
               LET q == RotY(rot[2], RotX(rot[1], VAdd(ActiveModel.atoms[i].pos,
                                                       <<trans[1], trans[2], 0>>)))
               IN  tp[i] = <<FMul(q[1], zoom), FMul(q[2], zoom), FMul(q[3], zoom)>>

\* a render pass made after a zoom key and a model-cycling step
C10_Witness ==
    /\ Rendered
    /\ iter = 2
    /\ zoom # InitialView(args.size, models[InitialIdx(args.model, Len(models)) + 1]).zoom
    /\ curr_model_idx # InitialIdx(args.model, Len(models))
    /\ clip # NoClip
    /\ screen # NoOutput

(***************************************************************************)
(* Properties of the control loop                                          *)
(***************************************************************************)
\* an iteration has run to its end and the loop is about to poll again
IterationDone == pc = "poll" /\ iter > 0

\* the fields of the view an input event can change that differ from what they
\* were when the iteration began
ChangedByInput ==
    {f \in {"zoom", "trans", "rot", "auto_spin", "cycle_models"} :
        CASE f = "zoom" -> zoom # it.at.zoom
          [] f = "trans" -> trans # it.at.trans
          [] f = "rot" -> rot # it.at.rot
          [] f = "auto_spin" -> auto_spin # it.at.auto_spin
          [] f = "cycle_models" -> cycle_models # it.at.cycle_models}

\* the Canvas a full render pass leaves for the view as it is now
FullPass ==
    DrawBonds(DrawBorder(CanvasNew, clip), ActiveModel,
              TransformAll(ActiveModel, trans, rot, zoom), clip, 1)

\* C11: an iteration of the loop applies at most one input event; if a key
\* event was read in it, or auto-spin or model-cycling made its increment, one
\* full render pass (clear, border, bonds, emit) and no more was made and
\* completed before the next poll; and no input is applied while a render pass
\* runs: the pass leaves the view as it found it, so the frame on the screen at
\* the next poll is the frame of the view as it then is.
C11_OnePassPerIteration ==
    /\ [](/\ it.passes <= 1
          /\ pc = "tick" =>
                 /\ Cardinality(ChangedByInput) <= 1
                 /\ it.event # "key" => ChangedByInput = {}
          /\ IterationDone =>
                 /\ (it.event = "key" \/ it.spun \/ it.cycled) =>
                        (it.passes = 1 /\ it.written)
                 /\ it.passes = 1 =>
                        /\ tp = TransformAll(ActiveModel, trans, rot, zoom)
                        /\ canvas = FullPass
                        /\ screen = frame(canvas))
    /\ [][pc = "render" =>
              UNCHANGED <<curr_model_idx, zoom, trans, rot, auto_spin, cycle_models, clip>>]_vars

\* an iteration that read no key and rendered for the auto-spin increment alone
C11_Witness ==
    /\ IterationDone
    /\ it.event = "timeout"
    /\ it.spun
    /\ ~it.cycled
    /\ it.passes = 1
    /\ rot # it.at.rot
    /\ screen = frame(FullPass)

(***************************************************************************)
(* Properties of the loader                                                *)
(***************************************************************************)
Backbone(l) ==
    l.tag = "ATOM" /\ l.ok
    /\ l.atom.name \in {"N", "CA", "C", "P", "O5'", "C5'", "C4'", "C3'", "O3'"}

\* a file of two models, each of the same two backbone atoms of one chain with
\* sequential residue numbers
TwoByTwo(file) ==
    /\ file.exists
    /\ Len(file.lines) = 8
    /\ \A i \in {1, 5} : file.lines[i].tag = "MODEL"
    /\ \A i \in {4, 8} : file.lines[i].tag = "ENDMDL"
    /\ \A i \in {2, 3, 6, 7} : Backbone(file.lines[i])
    /\ \A i \in {2, 6} :
           /\ file.lines[i + 1].atom.chain_id = file.lines[i].atom.chain_id
           /\ file.lines[i + 1].atom.res_seq = file.lines[i].atom.res_seq + 1

\* C12: every model the loader returns has one connection flag per pair of
\* consecutive atoms, true exactly when the two atoms share the chain id and the
\* residue number of the second is that of the first or that of the first plus
\* one; a file of two models of two atoms of one chain with sequential residues
\* loads as two models with connections = [true].
C12_ConnectionsRule ==
    /\ \A k \in 1..Len(models) :
           LET m == models[k]
           IN  /\ Len(m.atoms) >= 1
               /\ Len(m.connections) = Len(m.atoms) - 1
               /\ \A i \in 1..Len(m.connections) :
                      m.connections[i] <=>
                          /\ m.atoms[i].chain_id = m.atoms[i + 1].chain_id
                          /\ m.atoms[i + 1].res_seq - m.atoms[i].res_seq \in {0, 1}
    /\ (pc = "setup" /\ TwoByTwo(args.input)) =>
           /\ Len(models) = 2
           /\ \A k \in 1..2 : Len(models[k].atoms) = 2 /\ models[k].connections = <<TRUE>>

\* the file of two models of two atoms loaded
C12_Witness ==
    /\ pc = "setup"
    /\ TwoByTwo(args.input)
    /\ Len(models) = 2
    /\ models[1].connections = <<TRUE>>
    /\ models[2].connections = <<TRUE>>

(***************************************************************************)
(* Properties of the active model index                                    *)
(***************************************************************************)
\* C13: the active model index starts at model - 1 when the requested model is
\* in 1..=count and at 0 otherwise; the cycling step of an iteration moves it
\* on by one modulo the model count when model-cycling is active and leaves it
\* alone when it is not, and nothing else changes it; so it is always within
\* 0 .. count - 1 and the render pass reads a model that exists.
C13_CyclingIndex ==
    /\ [](models # <<>> =>
            /\ curr_model_idx \in 0..(Len(models) - 1)
            /\ pc = "setup" =>
                   curr_model_idx = IF args.model \in 1..Len(models) THEN args.model - 1
                                    ELSE 0
            /\ IterationDone =>
                   curr_model_idx = IF cycle_models
                                    THEN (it.at.curr_model_idx + 1) % Len(models)
                                    ELSE it.at.curr_model_idx)
    /\ [][IF pc = "tick" /\ cycle_models
          THEN curr_model_idx' = (curr_model_idx + 1) % Len(models)
          ELSE pc # "load" => curr_model_idx' = curr_model_idx]_vars

\* a requested model past the last one, and the index cycled from the last
\* model back to the first
C13_Witness ==
    /\ IterationDone
    /\ args.model > Len(models)
    /\ Len(models) = 2
    /\ cycle_models
    /\ it.cycled
    /\ it.at.curr_model_idx = 1
    /\ curr_model_idx = 0

(***************************************************************************)
(* Properties of the failures                                              *)
(***************************************************************************)
SizeRejected == args.size < 10 * FP \/ args.size > 400 * FP

\* the file cannot be opened, or reading one of its lines fails, or none of
\* its lines parses as a backbone atom
LoadFails(file) ==
    \/ ~file.exists
    \/ \E i \in 1..Len(file.lines) : file.lines[i].tag = "ERR"
    \/ ~\E i \in 1..Len(file.lines) : Backbone(file.lines[i])

TerminalUntouched == term = [raw |-> FALSE, alt |-> FALSE, hidden |-> FALSE]

NothingRendered ==
    /\ screen = NoOutput
    /\ tp = <<>>
    /\ drawn = <<>>
    /\ canvas = CanvasNew
    /\ it = NoIter

\* C14: when the structure cannot be loaded (the file cannot be opened or read,
\* or no backbone atom is parsed), main returns the failure from the load: the
\* terminal is never set up, no model is kept, and no render pass is made and
\* no frame emitted, also when part of the file had been read.
C14_LoadFailureBeforeRendering ==
    (pc # "off" /\ ~SizeRejected /\ LoadFails(args.input)) =>
        /\ pc \in {"args", "load", "done"}
        /\ pc = "done" => result = "err"
        /\ models = <<>>
        /\ TerminalUntouched
        /\ NothingRendered

\* main has returned Err on a file whose reading failed after backbone atoms
\* had been read
C14_Witness ==
    /\ pc = "done"
    /\ result = "err"
    /\ ~SizeRejected
    /\ args.input.exists
    /\ \E i, j \in 1..Len(args.input.lines) :
           i < j /\ Backbone(args.input.lines[i]) /\ args.input.lines[j].tag = "ERR"
    /\ TerminalUntouched
    /\ NothingRendered

\* C15: a viewport size below 10 or above 400 is rejected before anything else
\* is done: main ends there, the structure is not loaded, raw mode and the
\* alternate screen are not entered and no render pass is made.
C15_SizeRejectedFirst ==
    (pc # "off" /\ SizeRejected) =>
        /\ pc \in {"args", "done"}
        /\ pc = "done" => result = "ok"
        /\ models = <<>>
        /\ zoom = 0
        /\ clip = NoClip
        /\ TerminalUntouched
        /\ NothingRendered

\* main has ended on a size above 400 given with a file that would load
C15_Witness ==
    /\ pc = "done"
    /\ args.size > 400 * FP
    /\ ~LoadFails(args.input)
    /\ models = <<>>
    /\ TerminalUntouched
    /\ NothingRendered

\* C16: an Err from poll, from read or from a write of the render pass ends the
\* loop and is what main returns: the iteration it came in made no render pass
\* after it (none at all for poll and read, the one that failed for a write,
\* whose frame never reached the screen), and main takes no step after it.
C16_IoFailureEndsLoop ==
    /\ [](/\ it.event \in {"poll_err", "read_err"} =>
                 /\ pc = "done" /\ result = "err"
                 /\ it.passes = 0
                 /\ canvas = it.at.canvas /\ screen = it.at.screen
          /\ (it.passes >= 1 /\ ~it.written) =>
                 /\ pc = "done" /\ result = "err"
                 /\ it.passes = 1
                 /\ screen = it.at.screen
          /\ result = "err" => pc = "done")
    /\ [][result = "err" => UNCHANGED vars]_vars

\* a frame was written, and in the next iteration the write failed
C16_Witness ==
    /\ pc = "done"
    /\ result = "err"
    /\ iter = 2
    /\ it.passes = 1
    /\ ~it.written
    /\ screen # NoOutput
    /\ screen # frame(canvas)

(***************************************************************************)
(* More properties of the Canvas                                           *)
(***************************************************************************)
DegenerateLine ==
    last.op = "line" /\ last.args[1] = last.args[3] /\ last.args[2] = last.args[4]

\* C17: line(x, y, x, y) returns after exactly one set call, for the point
\* set(x, y) marks, and leaves the Canvas, grid and bounding rectangle, as one
\* call of set(x, y) on the Canvas before it would.
C17_DegenerateLineIsSet ==
    DegenerateLine =>
        /\ last.returned
        /\ Len(path) = 1
        /\ PtsOf(path) = <<Pt(last.args[1], last.args[2])>>
        /\ calls = Append(SubSeq(calls, 1, Len(calls) - 1), Pt(last.args[1], last.args[2]))
        /\ canvas = set(pre, last.args[1], last.args[2])

\* a degenerate line at a point with a fractional coordinate, drawn on a Canvas
\* that held dots
C17_Witness ==
    /\ DegenerateLine
    /\ last.args[1] = (19 * FP) \div 10
    /\ last.args[2] = -((26 * FP) \div 10)
    /\ Keys(pre) # {}
    /\ canvas # pre
    /\ canvas = set(pre, last.args[1], last.args[2])

(***************************************************************************)
(* More properties of the render pass                                      *)
(***************************************************************************)
\* the Canvas of the border and the bonds of a model under a view, drawn on a
\* Canvas that holds nothing
PassOf(model, tr, ro, z, cl) ==
    DrawBonds(DrawBorder(CanvasNew, cl), model, TransformAll(model, tr, ro, z), cl, 1)

\* C18: the render pass clears the Canvas first, so what it leaves on the
\* Canvas and on the screen depends on the active model, the zoom, translation
\* and rotation and the clip rectangle alone, not on the keys and ticks that led
\* there: nothing of an earlier frame is left.
C18_FrameDependsOnViewOnly ==
    Rendered =>
        /\ canvas = PassOf(models[curr_model_idx + 1], trans, rot, zoom, clip)
        /\ screen = frame(PassOf(models[curr_model_idx + 1], trans, rot, zoom, clip))
        /\ Keys(canvas) =
               {CellOf(p) : p \in Range(PtsOf(Flatten(drawn)))}
               \cup Keys(DrawBorder(CanvasNew, clip))

\* the view moved and moved back: the frame of a view reached before, after a
\* different frame in between
C18_Witness ==
    /\ Rendered
    /\ iter = 2
    /\ it.event = "key"
    /\ it.code = "f"
    /\ trans = <<0, 0>>
    /\ rot = <<0, 0>>
    /\ zoom = InitialView(args.size, models[curr_model_idx + 1]).zoom
    /\ it.at.trans # trans
    /\ it.at.canvas # canvas
    /\ it.at.screen # screen
    /\ Flatten(drawn) # <<>>
    /\ screen = frame(PassOf(models[curr_model_idx + 1], <<0, 0>>, <<0, 0>>, zoom, clip))

\* the cells of the rounded corners (x_min, y_min) and (x_max, y_max) of the
\* clip rectangle
LowCell == CellOf(Pt(clip.x_min, clip.y_min))

HighCell == CellOf(Pt(clip.x_max, clip.y_max))

\* C19: after every render pass the bounding rectangle of the Canvas is the
\* rectangle of cells between the rounded corners of the clip rectangle: every
\* dot of a bond lies between the rounded corners, so every frame of a run has
\* the rows and columns of the border, the same in every frame, and is not
\* empty.
C19_FrameIsBorderRectangle ==
    Rendered =>
        /\ canvas.min_x = LowCell[1] /\ canvas.min_y = LowCell[2]
        /\ canvas.max_x = HighCell[1] /\ canvas.max_y = HighCell[2]
        /\ \A p \in Range(PtsOf(Flatten(drawn))) :
               /\ Pt(clip.x_min, clip.y_min)[1] <= p[1] /\ p[1] <= Pt(clip.x_max, clip.y_max)[1]
               /\ Pt(clip.x_min, clip.y_min)[2] <= p[2] /\ p[2] <= Pt(clip.x_max, clip.y_max)[2]
        /\ screen # NoOutput =>
               /\ screen # <<>>
               /\ Len(screen) = (HighCell[2] - LowCell[2] + 1) * (HighCell[1] - LowCell[1] + 1 + 2)
               /\ (IterationDone /\ it.at.screen # NoOutput) => Len(screen) = Len(it.at.screen)

\* a second frame, after keys that put one bond inside and one across the edge
C19_Witness ==
    /\ Rendered
    /\ iter = 2
    /\ it.at.screen # NoOutput
    /\ screen # it.at.screen
    /\ Len(screen) = Len(it.at.screen)
    /\ \E i, j \in 1..Len(drawn) :
           /\ drawn[i] # <<>>
           /\ ActiveModel.connections[j]
           /\ StrictlyIn(tp[j]) # StrictlyIn(tp[j + 1])
    /\ canvas.max_x = HighCell[1]

(***************************************************************************)
(* When the loop renders                                                   *)
(***************************************************************************)
\* the loop has left an iteration: to poll again, or out of the loop by a quit
\* key
IterationLeft == iter > 0 /\ pc \in {"poll", "cleanup"}

\* C20 as claimed: an iteration makes a render pass if and only if it is the
\* first one, or a key event (any key) was read in it, or auto-spin or
\* model-cycling is active.
C20_Original ==
    IterationLeft =>
        (it.passes = 1 <=> (iter = 1 \/ it.event = "key" \/ auto_spin \/ cycle_models))

\* C20: an iteration that runs to its end (no quit key read in it, no Err from
\* poll, read or a write) makes a render pass if and only if it is the first
\* one, or a key event was read in it (any other key, also one that changes
\* nothing of the view), or auto-spin or model-cycling is active; after the
\* first frame, an iteration with no key event and both flags off makes no
\* render pass and leaves every local of the loop, the Canvas and the screen as
\* they were.
C20_RenderIff ==
    IterationDone =>
        /\ it.passes = 1 <=> (iter = 1 \/ it.event = "key" \/ auto_spin \/ cycle_models)
        /\ it.at.do_update <=> iter = 1
        /\ ~do_update
        /\ (iter > 1 /\ it.event # "key" /\ ~auto_spin /\ ~cycle_models) =>
               /\ it.passes = 0
               /\ AtPoll = it.at

\* a frame rendered for 'P' with a single model, which changed nothing of the
\* view
C20_Witness ==
    /\ IterationDone
    /\ iter = 2
    /\ it.event = "key"
    /\ it.code = "P"
    /\ Len(models) = 1
    /\ ~cycle_models
    /\ ~auto_spin
    /\ it.passes = 1
    /\ [AtPoll EXCEPT !.do_update = FALSE] = [it.at EXCEPT !.do_update = FALSE]

(***************************************************************************)
(* Quitting                                                                *)
(***************************************************************************)
QuitRead == it.event = "key" /\ it.code \in {"q", "Q", "Esc"}

\* the iteration that read the quit key made no spin or cycling increment and
\* no render pass
LoopEndedAtOnce ==
    /\ pc \in {"cleanup", "done"}
    /\ it.passes = 0
    /\ ~it.spun
    /\ ~it.cycled
    /\ rot = it.at.rot
    /\ curr_model_idx = it.at.curr_model_idx
    /\ zoom = it.at.zoom
    /\ trans = it.at.trans
    /\ canvas = it.at.canvas
    /\ screen = it.at.screen

\* C21 as claimed: once a quit key is read the loop ends in that iteration with
\* no spin, cycling or render pass, and when main has returned the terminal is
\* restored: cursor shown, alternate screen left, raw mode disabled.
C21_Original ==
    QuitRead =>
        /\ LoopEndedAtOnce
        /\ pc = "done" => TerminalUntouched

\* C21: once a quit key is read the loop ends in that iteration with no spin,
\* cycling or render pass; the terminal, still set up then, is restored (cursor
\* shown, alternate screen left, raw mode disabled) before main returns Ok; when
\* one of the two restoring calls fails main returns its Err at once, with raw
\* mode still enabled.
C21_QuitEndsLoopAndRestores ==
    QuitRead =>
        /\ LoopEndedAtOnce
        /\ pc = "cleanup" => term = [raw |-> TRUE, alt |-> TRUE, hidden |-> TRUE]
        /\ pc = "done" =>
               /\ result \in {"ok", "err"}
               /\ result = "ok" => TerminalUntouched
               /\ result = "err" => term.raw

\* Esc read while auto-spin was on and frames had been shown: main returned Ok
\* with the terminal restored and the rotation as the last frame had it
C21_Witness ==
    /\ QuitRead
    /\ it.code = "Esc"
    /\ pc = "done"
    /\ result = "ok"
    /\ TerminalUntouched
    /\ auto_spin
    /\ rot = it.at.rot
    /\ screen # NoOutput
    /\ it.passes = 0

====
